---- MODULE Spec2Model ----
(***************************************************************************)
(* probs-runner: the Datasource factories (datasource.py), the merge of    *)
(* datasources into the staged file map and the runner functions          *)
(* (runners.py).                                                           *)
(*                                                                         *)
(* Python strings, paths and byte strings are sequences of tokens; a token *)
(* is an indivisible piece of text ("a", "/", ".ttl", ...).  String        *)
(* concatenation is \o.  md5(...).hexdigest() is modelled as a collision   *)
(* free digest: the digest of b is the token sequence "md5(" b ")".        *)
(***************************************************************************)
EXTENDS Integers, Sequences, FiniteSets, TLC

VARIABLES calls,      \* the factory calls made so far, each with its outcome
          merges,     \* the _add_datasources_to_input_files calls made so far
          run,        \* the runner call in progress
          loads,      \* the load_datasource calls made so far
          answered    \* the answer_queries calls made so far

vars == <<calls, merges, run, loads, answered>>

-----------------------------------------------------------------------------
(* Bounds of the model *)

MaxPathLen == 3       \* tokens in one source path
MaxFiles == 2         \* entries of one from_files argument
MaxTotalLen == 3      \* tokens in all source paths of one from_files argument
MaxVariedLen == 2     \* the same, where the script and rules arguments vary
MaxCalls == 2         \* factory calls in one behaviour
MaxMerge == 2         \* datasources handed to one merge or one runner call
MaxTextLen == 3       \* tokens in one text of facts

-----------------------------------------------------------------------------
(* Text helpers *)

SeqsUpTo(S, n) == UNION {[1..k -> S] : k \in 1..n}

Max(S) == CHOOSE x \in S : \A y \in S : y <= x

RECURSIVE Concat(_)
\* b"".join(seq) / "".join(seq)
Concat(ss) == IF ss = <<>> THEN <<>> ELSE Head(ss) \o Concat(Tail(ss))

RECURSIVE JoinNL(_)
\* "\n".join(seq)
JoinNL(ss) ==
    IF ss = <<>> THEN <<>>
    ELSE IF Len(ss) = 1 THEN Head(ss)
    ELSE Head(ss) \o <<"\n">> \o JoinNL(Tail(ss))

Range(f) == {f[i] : i \in DOMAIN f}

-----------------------------------------------------------------------------
(* pathlib *)

PathTokens == {"a", "/", ".ttl", ".csv"}

IsExt(t) == t \in {".ttl", ".csv", ".nt", ".gz"}

\* The strings pathlib leaves as they are: no empty component, no trailing
\* separator, a non-empty final component.
Normalised(s) ==
    /\ Len(s) >= 1
    /\ s[Len(s)] # "/"
    /\ \A i \in 1..(Len(s) - 1) : ~(s[i] = "/" /\ s[i + 1] = "/")

SourcePaths == {s \in SeqsUpTo(PathTokens, MaxPathLen) : Normalised(s)}

Obj(type, s) == [type |-> type, s |-> s]

None == Obj("None", <<>>)
Str(s) == Obj("str", s)
Path(s) == Obj("Path", s)
StringIO(s) == Obj("StringIO", s)

\* PurePath.name: the final component
PathName(s) ==
    LET seps == {i \in 1..Len(s) : s[i] = "/"}
    IN IF seps = {} THEN s ELSE SubSeq(s, Max(seps) + 1, Len(s))

\* PurePath.suffix: from the last dot of the name, unless the name starts
\* with it
PathSuffix(s) ==
    LET name == PathName(s)
        dots == {i \in 2..Len(name) : IsExt(name[i])}
    IN IF dots = {} THEN <<>> ELSE SubSeq(name, Max(dots), Len(name))

\* Path("data") / datasource_name / filename, for a relative filename
DataPath(datasource_name, filename) ==
    Path(<<"data", "/">> \o datasource_name \o <<"/">> \o filename)

\* hashlib.md5(b).hexdigest()
md5hex(b) == <<"md5(">> \o b \o <<")">>

\* Path.read_text() of an existing file
read_text(p) == <<"<text of ">> \o p.s \o <<">">>

-----------------------------------------------------------------------------
(* dict: insertion ordered, keys unique; an item is <<key, value>> *)

Keys(d) == {d[i][1] : i \in DOMAIN d}

Items(d) == Range(d)

Get(d, k) == (CHOOSE it \in Items(d) : it[1] = k)[2]

\* d[k] = v
Put(d, k, v) ==
    IF k \in Keys(d)
    THEN [i \in DOMAIN d |-> IF d[i][1] = k THEN <<k, v>> ELSE d[i]]
    ELSE Append(d, <<k, v>>)

\* d1 == d2: the same items, in any order
DictEq(d1, d2) == Items(d1) = Items(d2)

-----------------------------------------------------------------------------
(* Datasource *)

Datasource(input_files, load_data_script, rules) ==
    [input_files |-> input_files,
     load_data_script |-> load_data_script,
     rules |-> rules]

\* the dataclass's generated __eq__
DatasourceEq(a, b) ==
    /\ DictEq(a.input_files, b.input_files)
    /\ a.load_data_script = b.load_data_script
    /\ a.rules = b.rules

NoDatasource == Datasource(<<>>, <<>>, <<>>)

Returned(ds) == [exc |-> "", offending |-> {}, ds |-> ds]

Raised(exc, offending) == [exc |-> exc, offending |-> offending, ds |-> NoDatasource]

\* from_facts with a file name that does not depend on the text
from_facts_one_name(facts) ==
    LET hash == md5hex(<<>>)
        input_files == <<
            <<Str(<<"data", "/">> \o hash \o <<".ttl">>), StringIO(facts)>> >>
        import_statement == <<"import ">> \o hash \o <<".ttl", "\n">>
    IN Returned(Datasource(input_files, import_statement, <<>>))

\* from_facts with the import statement naming the staged path, data/ included
from_facts_import_key(facts) ==
    LET hash == md5hex(facts)
        input_files == <<
            <<Str(<<"data", "/">> \o hash \o <<".ttl">>), StringIO(facts)>> >>
        import_statement == <<"import ", "data", "/">> \o hash \o <<".ttl", "\n">>
    IN Returned(Datasource(input_files, import_statement, <<>>))

from_facts(facts) ==
    LET hash == md5hex(facts)
        input_files == <<
            <<Str(<<"data", "/">> \o hash \o <<".ttl">>), StringIO(facts)>> >>
        import_statement == <<"import ">> \o hash \o <<".ttl", "\n">>
    IN Returned(Datasource(input_files, import_statement, <<>>))

RECURSIVE NamesFromList_overwriting(_, _)
\* the list form without the test of line 62: a later file takes the name
NamesFromList_overwriting(input_files_list, input_files) ==
    IF input_files_list = <<>> THEN [dup |-> FALSE, d |-> input_files]
    ELSE LET source_path == Head(input_files_list)[2]
             name == Str(PathName(source_path.s))
         IN NamesFromList_overwriting(Tail(input_files_list),
                                      Put(input_files, name, source_path))

\* lines 57-65: the list form, each file staged under its own name
RECURSIVE NamesFromList(_, _)
NamesFromList(input_files_list, input_files) ==
    IF input_files_list = <<>> THEN [dup |-> FALSE, d |-> input_files]
    ELSE LET source_path == Head(input_files_list)[2]
             name == Str(PathName(source_path.s))
         IN IF name \in Keys(input_files)
            THEN [dup |-> TRUE, d |-> input_files]
            ELSE NamesFromList(Tail(input_files_list),
                               Append(input_files, <<name, source_path>>))

\* line 68: "Generate a unique but stable name"
DatasourceName(input_files) ==
    md5hex(Concat([i \in DOMAIN input_files |-> input_files[i][2].s]))

\* lines 70-73
FullInputFiles(datasource_name, input_files) ==
    [i \in DOMAIN input_files |->
        <<DataPath(datasource_name, input_files[i][1].s), input_files[i][2]>>]

auto_suffices == {<<".ttl">>, <<".nt">>, <<".nt", ".gz">>, <<".ttl", ".gz">>}

\* line 77
Suffices(full_input_files) == {PathSuffix(k.s) : k \in Keys(full_input_files)}

\* line 79: whether the files are loaded automatically
AutoLoadable(suffices) == suffices = auto_suffices

\* lines 80-82
AutoScript(input_files) ==
    <<"# Auto generated to load TTL files", "\n">> \o
    JoinNL([i \in DOMAIN input_files |->
              <<"import \"$(dir.datasource)/">> \o input_files[i][1].s \o <<"\"">>])

\* the directive naming the data folder, not the datasource's own sub-folder
DirSetup_shared(datasource_name) ==
    <<"set dir.datasource \"$(dir.root)/data/", "/\"">>

\* line 90
DirSetup(datasource_name) ==
    <<"set dir.datasource \"$(dir.root)/data/">> \o datasource_name \o <<"/\"">>

\* lines 93-96
ResolveRules(rules) ==
    IF rules.type = "None" THEN <<>>
    ELSE IF rules.type = "Path" THEN read_text(rules)
    ELSE rules.s

\* lines 86-91, once there is a load_data_script
WithScript(full_input_files, datasource_name, load_data_script, rules) ==
    Returned(Datasource(full_input_files,
                        DirSetup(datasource_name) \o <<"\n">> \o load_data_script,
                        ResolveRules(rules)))

from_files(files, load_data_script, rules) ==
    LET named == IF files.form = "list"
                 THEN NamesFromList(files.items, <<>>)
                 ELSE [dup |-> FALSE, d |-> files.items]
        input_files == named.d
        datasource_name == DatasourceName(input_files)
        full_input_files == FullInputFiles(datasource_name, input_files)
        suffices == Suffices(full_input_files)
    IN IF named.dup THEN Raised("ValueError: Duplicate path name in list", {})
       ELSE IF load_data_script.type = "None"
       THEN IF AutoLoadable(suffices)
            THEN WithScript(full_input_files, datasource_name,
                            AutoScript(input_files), rules)
            ELSE Raised("ValueError: cannot automatically load",
                        suffices \ auto_suffices)
       ELSE IF load_data_script.type = "Path"
       THEN WithScript(full_input_files, datasource_name,
                       read_text(load_data_script), rules)
       ELSE WithScript(full_input_files, datasource_name,
                       load_data_script.s, rules)

-----------------------------------------------------------------------------
(* The inputs of the factory calls *)

FactTokens == {":A", ":B"}

FactTexts == SeqsUpTo(FactTokens, MaxTextLen)

TargetNames == {<<"f">>, <<"g", ".ttl">>}

ScriptArgs == {None, Str(<<"s">>), Str(<<"t">>), Path(<<"load_data.rdfox">>)}

RulesArgs == {None, Str(<<"r">>), Path(<<"map.dlog">>)}

TotalLen(items) == Len(Concat([i \in DOMAIN items |-> items[i][2].s]))

\* a list of source paths
ListArgs ==
    {[form |-> "list", items |-> items] :
        items \in UNION {{it \in [1..k -> {<<None, Path(p)>> :
                                    p \in {q \in SourcePaths :
                                             Len(q) <= MaxTotalLen - k + 1}}] :
                             TotalLen(it) <= MaxTotalLen} : k \in 1..MaxFiles}}

\* a dict from target name to source path
DictArgs ==
    {[form |-> "dict", items |-> items] :
        items \in UNION {{it \in [1..k -> {<<Str(n), Path(p)>> :
                                    n \in TargetNames,
                                    p \in {q \in SourcePaths :
                                             Len(q) <= MaxTotalLen - k + 1}}] :
                             /\ TotalLen(it) <= MaxTotalLen
                             /\ \A i, j \in DOMAIN it : it[i][1] = it[j][1] => i = j} :
                         k \in 1..MaxFiles}}

FilesArgs == ListArgs \cup DictArgs

NoFiles == [form |-> "none", items |-> <<>>]

-----------------------------------------------------------------------------
(* The factory calls *)

Call(op, facts, files, script, rules, out) ==
    [op |-> op, facts |-> facts, files |-> files, script |-> script,
     rules |-> rules, out |-> out]

FromFacts ==
    /\ Len(calls) < MaxCalls
    /\ \E facts \in FactTexts :
          calls' = Append(calls, Call("from_facts", facts, NoFiles, None, None,
                                      from_facts(facts)))
    /\ UNCHANGED <<merges, run, loads, answered>>

\* The arguments of the from_files calls: every file argument with an explicit
\* script, and the short ones with every kind of script and rules argument.
FromFilesInputs ==
    {<<files, Str(<<"s">>), None>> : files \in FilesArgs}
    \cup ({files \in FilesArgs : TotalLen(files.items) <= MaxVariedLen}
          \X ScriptArgs \X RulesArgs)

FromFiles ==
    /\ Len(calls) < MaxCalls
    /\ \E in \in FromFilesInputs :
          calls' = Append(calls, Call("from_files", <<>>, in[1], in[2], in[3],
                                      from_files(in[1], in[2], in[3])))
    /\ UNCHANGED <<merges, run, loads, answered>>

\* one factory call on its own
FromFactsOnce ==
    /\ calls = <<>>
    /\ FromFacts

FromFilesOnce ==
    /\ calls = <<>>
    /\ FromFiles

-----------------------------------------------------------------------------
(* runners.py: the staged file map *)

DEFAULT_SCRIPT_SOURCE_DIR == Path(<<"<probs_ontology>">>)

\* script_source_dir / "<relative>"
Under(dir, rel) == Path(dir.s \o <<"/">> \o rel)

PROBS_FSS == <<"data", "/", "probs.fss">>
ADDITIONAL_INFO == <<"data", "/", "additional_info.ttl">>
SCRIPTS == <<"scripts", "/">>
LOAD_DATA == <<"scripts", "/", "data-conversion", "/", "load_data.rdfox">>
MAP_DLOG == <<"scripts", "/", "data-conversion", "/", "map.dlog">>

_standard_input_files(script_source_dir) ==
    LET dir == IF script_source_dir.type = "None"
               THEN DEFAULT_SCRIPT_SOURCE_DIR
               ELSE script_source_dir
    IN << <<Str(PROBS_FSS), Under(dir, PROBS_FSS)>>,
          <<Str(ADDITIONAL_INFO), Under(dir, ADDITIONAL_INFO)>>,
          <<Str(SCRIPTS), Under(dir, SCRIPTS)>> >>

\* the accumulator files joined without the separating newline
Accumulate_unseparated(input_files, datasources) ==
    LET scripts == [i \in DOMAIN datasources |-> datasources[i].load_data_script]
        rules == [i \in DOMAIN datasources |-> datasources[i].rules]
    IN Put(Put(input_files, Str(LOAD_DATA), StringIO(Concat(scripts))),
           Str(MAP_DLOG), StringIO(Concat(rules)))

\* lines 82-87: the two accumulator files
Accumulate(input_files, datasources) ==
    LET scripts == [i \in DOMAIN datasources |-> datasources[i].load_data_script]
        rules == [i \in DOMAIN datasources |-> datasources[i].rules]
    IN Put(Put(input_files, Str(LOAD_DATA), StringIO(JoinNL(scripts))),
           Str(MAP_DLOG), StringIO(JoinNL(rules)))

\* the check of line 90 left out
Duplicate_unchecked(tgt, input_files) == FALSE

\* line 90: whether the target is refused
Duplicate(tgt, input_files) == tgt \in Keys(input_files)

Merged(exc, tgt, input_files) == [exc |-> exc, tgt |-> tgt, input_files |-> input_files]

\* the files of one datasource with a target already present passed over
\* without an error, the first binding kept
RECURSIVE AddFiles_deduplicating(_, _)
AddFiles_deduplicating(input_files, items) ==
    IF items = <<>> THEN Merged("", None, input_files)
    ELSE LET tgt == Head(items)[1]
             src == Head(items)[2]
         IN IF Duplicate(tgt, input_files)
            THEN AddFiles_deduplicating(input_files, Tail(items))
            ELSE AddFiles_deduplicating(Put(input_files, tgt, src), Tail(items))

\* lines 89-92: the files of one datasource; input_files is updated in place,
\* so that a raise leaves the entries made before it
RECURSIVE AddFiles(_, _)
AddFiles(input_files, items) ==
    IF items = <<>> THEN Merged("", None, input_files)
    ELSE LET tgt == Head(items)[1]
             src == Head(items)[2]
         IN IF Duplicate(tgt, input_files)
            THEN Merged("ValueError: Duplicate entry in input_files", tgt, input_files)
            ELSE AddFiles(Put(input_files, tgt, src), Tail(items))

\* lines 88-92
RECURSIVE AddEach(_, _)
AddEach(input_files, datasources) ==
    IF datasources = <<>> THEN Merged("", None, input_files)
    ELSE LET one == AddFiles(input_files, Head(datasources).input_files)
         IN IF one.exc # "" THEN one
            ELSE AddEach(one.input_files, Tail(datasources))

_add_datasources_to_input_files(input_files, datasources) ==
    AddEach(Accumulate(input_files, datasources), datasources)

-----------------------------------------------------------------------------
(* The datasources handed to the runners: built by the factories, or by the
   Datasource constructor itself *)

ListOf(paths) == [form |-> "list", items |-> [i \in DOMAIN paths |-> <<None, Path(paths[i])>>]]

DictOf(items) ==
    [form |-> "dict", items |-> [i \in DOMAIN items |-> <<Str(items[i][1]), Path(items[i][2])>>]]

GivenDatasources ==
    {from_facts(<<t>>).ds : t \in FactTokens}
    \cup {from_files(f, Str(<<"s">>), Str(<<"r">>)).ds :
            f \in {ListOf(<< <<"a", ".csv">> >>),
                   ListOf(<< <<"/", "a", ".csv">> >>),
                   DictOf(<< <<<<"f">>, <<"a", "a">>>> >>),
                   DictOf(<< <<<<"f">>, <<"a">>>>, <<<<"g">>, <<"a">>>> >>)}}
    \cup {Datasource(<< <<Str(PROBS_FSS), Path(<<"my.fss">>)>> >>, <<"x">>, <<>>),
          Datasource(<< <<Str(MAP_DLOG), Path(<<"my.dlog">>)>> >>, <<"y">>, <<>>)}

DatasourceLists == {<<>>} \cup SeqsUpTo(GivenDatasources, MaxMerge)

ScriptSourceDirs == {None, Path(<<"assets">>)}

-----------------------------------------------------------------------------
(* The merge on its own *)

\* a merge into the standard files of dir
MergeInto(dir, datasources) ==
    LET start == _standard_input_files(dir)
    IN [dir |-> dir,
        datasources |-> datasources,
        start |-> start,
        out |-> _add_datasources_to_input_files(start, datasources)]

AddDatasources ==
    /\ merges = <<>>
    /\ \E datasources \in DatasourceLists, dir \in ScriptSourceDirs :
          merges' = <<MergeInto(dir, datasources)>>
    /\ UNCHANGED <<calls, run, loads, answered>>

\* a second request over the same standard files
AddDatasourcesAgain ==
    /\ Len(merges) = 1
    /\ \E datasources \in DatasourceLists :
          merges' = Append(merges, MergeInto(merges[1].dir, datasources))
    /\ UNCHANGED <<calls, run, loads, answered>>

-----------------------------------------------------------------------------
(* runners.py: the runner functions *)

DEFAULT_PORT == 12112

\* the literal of "if port is None: port = 12112"
NonePort == 12112

DataRunners == {"probs_convert_data", "probs_convert_enhance_data", "probs_enhance_data"}

EndpointRunners == {"probs_convert_endpoint", "probs_convert_enhance_endpoint",
                    "probs_enhance_endpoint", "probs_endpoint"}

Runners == DataRunners \cup EndpointRunners

\* the runners that take datasources
ConvertRunners == {"probs_convert_data", "probs_convert_enhance_data",
                   "probs_convert_endpoint", "probs_convert_enhance_endpoint"}

\* a port argument: left out, None, or a number
Port(kind, n) == [kind |-> kind, n |-> n]

PortArgs == {Port("omitted", 0), Port("None", 0), Port("int", 0), Port("int", 8080)}

\* the statements of the runners with the session of an endpoint runner
\* started and stopped by plain calls around the yield, not by a with block
Program_unscoped(fn) ==
    CASE fn = "probs_convert_endpoint" ->
            <<"standard", "add_datasources", "script", "enter", "yield", "exit">>
      [] fn = "probs_convert_enhance_endpoint" ->
            <<"standard", "add_datasources", "port_default", "script",
              "enter", "yield", "exit">>
      [] fn = "probs_enhance_endpoint" ->
            <<"standard", "stage_original", "port_default", "script",
              "enter", "yield", "exit">>
      [] fn = "probs_endpoint" ->
            <<"standard", "stage_enhanced", "port_default", "script",
              "enter", "yield", "exit">>
      [] fn = "probs_enhance_data" ->
            <<"standard", "stage_original", "script", "with_enter", "copy", "with_exit">>
      [] OTHER ->
            <<"standard", "add_datasources", "script", "with_enter", "copy", "with_exit">>

\* the statements of the runners with the copy of a data runner after its
\* with block
Program_copy_after_with(fn) ==
    CASE fn = "probs_enhance_data" ->
            <<"standard", "stage_original", "script", "with_enter", "with_exit", "copy">>
      [] fn \in DataRunners ->
            <<"standard", "add_datasources", "script", "with_enter", "with_exit", "copy">>
      [] fn = "probs_convert_endpoint" ->
            <<"standard", "add_datasources", "script", "with_enter", "yield", "with_exit">>
      [] fn = "probs_convert_enhance_endpoint" ->
            <<"standard", "add_datasources", "port_default", "script",
              "with_enter", "yield", "with_exit">>
      [] fn = "probs_enhance_endpoint" ->
            <<"standard", "stage_original", "port_default", "script",
              "with_enter", "yield", "with_exit">>
      [] OTHER ->
            <<"standard", "stage_enhanced", "port_default", "script",
              "with_enter", "yield", "with_exit">>

\* the statements of each runner function, in the order of its body
Program(fn) ==
    CASE fn = "probs_convert_data" ->
            <<"standard", "add_datasources", "script", "with_enter", "copy", "with_exit">>
      [] fn = "probs_convert_endpoint" ->
            <<"standard", "add_datasources", "script", "with_enter", "yield", "with_exit">>
      [] fn = "probs_convert_enhance_data" ->
            <<"standard", "add_datasources", "script", "with_enter", "copy", "with_exit">>
      [] fn = "probs_convert_enhance_endpoint" ->
            <<"standard", "add_datasources", "port_default", "script",
              "with_enter", "yield", "with_exit">>
      [] fn = "probs_enhance_data" ->
            <<"standard", "stage_original", "script", "with_enter", "copy", "with_exit">>
      [] fn = "probs_enhance_endpoint" ->
            <<"standard", "stage_original", "port_default", "script",
              "with_enter", "yield", "with_exit">>
      [] fn = "probs_endpoint" ->
            <<"standard", "stage_enhanced", "port_default", "script",
              "with_enter", "yield", "with_exit">>

Exec(path) == <<"exec ", path>>

\* f'set endpoint.port "{int(port)}"'
SetEndpointPort(n) == <<"set endpoint.port \"", ToString(n), "\"">>

\* the last line of a script spelled as another shell would have it
Quit_exit == <<"exit">>

Quit == <<"quit">>

\* the script lists with the port set after the first exec
ScriptOf_port_after_exec(fn, n) ==
    CASE fn \in DataRunners -> <<Exec("scripts/data-conversion/master")>>
      [] fn = "probs_endpoint" ->
            <<Exec("scripts/reasoning/master"), SetEndpointPort(n)>>
      [] OTHER ->
            <<Exec("scripts/shared/setup-RDFox"), SetEndpointPort(n),
              Exec("scripts/reasoning/master-pipeline")>>

\* the script lists with the data runners driving the pipeline scripts
ScriptOf_pipeline(fn, n) ==
    CASE fn \in DataRunners ->
            <<Exec("scripts/shared/setup-RDFox"),
              Exec("scripts/data-conversion/master-pipeline"),
              Exec("scripts/data-enhancement/master-pipeline"),
              Quit>>
      [] OTHER -> <<SetEndpointPort(n), Exec("scripts/reasoning/master")>>

\* the script lists with the shared setup run after the stage scripts
ScriptOf_setup_last(fn, n) ==
    CASE fn = "probs_convert_data" -> <<Exec("scripts/data-conversion/master")>>
      [] fn = "probs_enhance_data" -> <<Exec("scripts/data-enhancement/master"), Quit>>
      [] fn = "probs_endpoint" -> <<SetEndpointPort(n), Exec("scripts/reasoning/master")>>
      [] fn = "probs_convert_enhance_data" ->
            <<Exec("scripts/data-conversion/master-pipeline"),
              Exec("scripts/data-enhancement/master-pipeline"),
              Exec("scripts/shared/setup-RDFox"),
              Exec("scripts/data-enhancement/save_data"),
              Quit>>
      [] fn = "probs_convert_endpoint" ->
            <<SetEndpointPort(n),
              Exec("scripts/data-conversion/master-pipeline"),
              Exec("scripts/reasoning/master-pipeline"),
              Exec("scripts/shared/setup-RDFox")>>
      [] fn = "probs_convert_enhance_endpoint" ->
            <<SetEndpointPort(n),
              Exec("scripts/data-conversion/master-pipeline"),
              Exec("scripts/data-enhancement/master-pipeline"),
              Exec("scripts/reasoning/master-pipeline"),
              Exec("scripts/shared/setup-RDFox")>>
      [] fn = "probs_enhance_endpoint" ->
            <<SetEndpointPort(n),
              Exec("scripts/shared/init-enhancement"),
              Exec("scripts/data-enhancement/input"),
              Exec("scripts/data-enhancement/master-pipeline"),
              Exec("scripts/reasoning/master-pipeline"),
              Exec("scripts/shared/setup-RDFox")>>

\* the script list of each runner function
ScriptOf(fn, n) ==
    CASE fn = "probs_convert_data" ->
            <<Exec("scripts/data-conversion/master")>>
      [] fn = "probs_convert_endpoint" ->
            <<SetEndpointPort(n),
              Exec("scripts/shared/setup-RDFox"),
              Exec("scripts/data-conversion/master-pipeline"),
              Exec("scripts/reasoning/master-pipeline")>>
      [] fn = "probs_convert_enhance_data" ->
            <<Exec("scripts/shared/setup-RDFox"),
              Exec("scripts/data-conversion/master-pipeline"),
              Exec("scripts/data-enhancement/master-pipeline"),
              Exec("scripts/data-enhancement/save_data"),
              Quit>>
      [] fn = "probs_convert_enhance_endpoint" ->
            <<SetEndpointPort(n),
              Exec("scripts/shared/setup-RDFox"),
              Exec("scripts/data-conversion/master-pipeline"),
              Exec("scripts/data-enhancement/master-pipeline"),
              Exec("scripts/reasoning/master-pipeline")>>
      [] fn = "probs_enhance_data" ->
            <<Exec("scripts/data-enhancement/master"), Quit>>
      [] fn = "probs_enhance_endpoint" ->
            <<SetEndpointPort(n),
              Exec("scripts/shared/setup-RDFox"),
              Exec("scripts/shared/init-enhancement"),
              Exec("scripts/data-enhancement/input"),
              Exec("scripts/data-enhancement/master-pipeline"),
              Exec("scripts/reasoning/master-pipeline")>>
      [] fn = "probs_endpoint" ->
            <<SetEndpointPort(n), Exec("scripts/reasoning/master")>>

ORIGINAL_DATA == <<"data", "/", "probs_original_data.nt.gz">>

ENHANCED_DATA == <<"data", "/", "probs_enhanced_data.nt.gz">>

\* the file a data runner copies to output_path
Artifact(fn) == IF fn = "probs_convert_data" THEN ORIGINAL_DATA ELSE ENHANCED_DATA

\* lists of existing artifacts, with the same base name in two directories
\* and with two names in one directory
ArtifactLists ==
    { << <<"d1", "/", "x.nt.gz">>, <<"d2", "/", "x.nt.gz">> >>,
      << <<"d1", "/", "x.nt.gz">>, <<"d1", "/", "y.nt.gz">> >> }

\* a tuple of paths, as click hands the inputs of the command line to the
\* data path parameter
TupleOf(paths) ==
    Obj("tuple", Concat([i \in DOMAIN paths |->
                            IF i = 1 THEN paths[i] ELSE <<", ">> \o paths[i]]))

\* the data path arguments: one path, or a tuple of paths
DataPaths == {Path(<<"in", ".nt.gz">>)} \cup {TupleOf(l) : l \in ArtifactLists}

WorkingDirs == {None, Path(<<"work">>)}

-----------------------------------------------------------------------------
(* The engine session, RDFoxRunner of the rdfox_runner package *)

Session(created, proc, workdir, owned) ==
    [created |-> created, proc |-> proc, workdir |-> workdir, owned |-> owned]

NoSession == Session(FALSE, "none", "none", FALSE)

\* __enter__ up to the readiness the runner waits for: the working directory
\* is materialized (a temporary one when working_dir is None), then the
\* engine is launched
SessionReady(working_dir, wait) ==
    Session(TRUE, IF wait = "endpoint" THEN "running" ELSE "exited", "exists",
            working_dir.type = "None")

\* teardown: the process is stopped, then an owned temporary directory removed
SessionStopped(session) ==
    Session(session.created,
            IF session.proc = "running" THEN "terminated" ELSE session.proc,
            IF session.owned /\ session.workdir = "exists" THEN "removed"
            ELSE session.workdir,
            session.owned)

\* __enter__ failing while it materializes the directory: the directory was
\* made, no engine was launched, and the session is torn down
SessionFailedMaterializing(working_dir) ==
    SessionStopped(Session(TRUE, "none", "exists", working_dir.type = "None"))

\* __enter__ failing to start the engine or to see it ready
SessionFailedStarting(working_dir) ==
    SessionStopped(Session(TRUE, "running", "exists", working_dir.type = "None"))

-----------------------------------------------------------------------------
(* One runner call, statement by statement *)

Idle ==
    [status |-> "idle", fn |-> "none", pc |-> 0,
     datasources |-> <<>>, data_path |-> None,
     port_arg |-> Port("omitted", 0), port |-> Port("omitted", 0),
     working_dir |-> None, script_source_dir |-> None, assets_exist |-> TRUE,
     input_files |-> <<>>, script |-> <<>>, session |-> NoSession,
     yielded |-> FALSE, copied |-> FALSE, pending |-> "", exc |-> ""]

Stmt == IF run.status = "running" THEN Program(run.fn)[run.pc] ELSE "none"

\* whether statement i of fn is inside the with block
InWith(fn, i) ==
    /\ \E j \in 1..(i - 1) : Program(fn)[j] = "with_enter"
    /\ \E k \in (i + 1)..Len(Program(fn)) : Program(fn)[k] = "with_exit"

WithExit(fn) == CHOOSE k \in DOMAIN Program(fn) : Program(fn)[k] = "with_exit"

\* the statement at pc completes; after the last one the function returns
Advance(r) ==
    IF r.pc = Len(Program(r.fn))
    THEN [r EXCEPT !.status = "returned"]
    ELSE [r EXCEPT !.pc = r.pc + 1]

\* exc is raised by the statement at pc: a with block around it is left
\* through its __exit__, otherwise the exception leaves the function
Raise(r, exc) ==
    IF InWith(r.fn, r.pc)
    THEN [r EXCEPT !.pc = WithExit(r.fn), !.pending = exc]
    ELSE [r EXCEPT !.status = "raised", !.exc = exc]

\* the function is called; a left-out port is the parameter's default
RunCall ==
    /\ run.status = "idle"
    /\ \E fn \in Runners, datasources \in DatasourceLists, data_path \in DataPaths,
          port \in PortArgs, working_dir \in WorkingDirs,
          dir \in ScriptSourceDirs, assets_exist \in BOOLEAN :
          /\ fn \in ConvertRunners \/ datasources = <<>>
          /\ fn \in EndpointRunners \/ port.kind = "omitted"
          /\ run' = [Idle EXCEPT
                        !.status = "running", !.fn = fn, !.pc = 1,
                        !.datasources = datasources,
                        !.data_path = IF fn \in ConvertRunners THEN None ELSE data_path,
                        !.port_arg = port,
                        !.port = IF port.kind = "omitted"
                                 THEN Port("int", DEFAULT_PORT) ELSE port,
                        !.working_dir = working_dir,
                        !.script_source_dir = dir,
                        !.assets_exist = assets_exist]
    /\ UNCHANGED <<calls, merges, loads, answered>>

StepStandard ==
    /\ Stmt = "standard"
    /\ run' = Advance([run EXCEPT
                         !.input_files = _standard_input_files(run.script_source_dir)])
    /\ UNCHANGED <<calls, merges, loads, answered>>

StepAddDatasources ==
    /\ Stmt = "add_datasources"
    /\ LET out == _add_datasources_to_input_files(run.input_files, run.datasources)
           r == [run EXCEPT !.input_files = out.input_files]
       IN run' = IF out.exc = "" THEN Advance(r) ELSE Raise(r, out.exc)
    /\ UNCHANGED <<calls, merges, loads, answered>>

StepStage ==
    /\ Stmt \in {"stage_original", "stage_enhanced"}
    /\ LET key == IF Stmt = "stage_original" THEN ORIGINAL_DATA ELSE ENHANCED_DATA
       IN run' = Advance([run EXCEPT
                            !.input_files = Put(run.input_files, Str(key), run.data_path)])
    /\ UNCHANGED <<calls, merges, loads, answered>>

StepPortDefault ==
    /\ Stmt = "port_default"
    /\ run' = Advance([run EXCEPT
                         !.port = IF run.port.kind = "None"
                                  THEN Port("int", NonePort) ELSE run.port])
    /\ UNCHANGED <<calls, merges, loads, answered>>

\* the script list is built; int(None) raises
StepScript ==
    /\ Stmt = "script"
    /\ run' = IF run.fn \in EndpointRunners /\ run.port.kind = "None"
              THEN Raise(run, "TypeError: int() argument")
              ELSE Advance([run EXCEPT !.script = ScriptOf(run.fn, run.port.n)])
    /\ UNCHANGED <<calls, merges, loads, answered>>

Wait(fn) == IF fn \in EndpointRunners THEN "endpoint" ELSE "completion"

\* RDFoxRunner(...) is created and entered
StepEnter ==
    /\ Stmt \in {"with_enter", "enter"}
    /\ \/ /\ run.assets_exist
          /\ run' = Advance([run EXCEPT
                               !.session = SessionReady(run.working_dir, Wait(run.fn))])
       \/ /\ run.assets_exist
          /\ run' = Raise([run EXCEPT
                             !.session = SessionFailedStarting(run.working_dir)],
                          "ProcessStartupError")
       \/ /\ ~run.assets_exist
          /\ run' = Raise([run EXCEPT
                             !.session = SessionFailedMaterializing(run.working_dir)],
                          "ConfigurationError")
    /\ UNCHANGED <<calls, merges, loads, answered>>

\* shutil.copy(rdfox.files(artifact), output_path)
StepCopy ==
    /\ Stmt = "copy"
    /\ \/ run' = Advance([run EXCEPT !.copied = TRUE])
       \/ run' = Raise(run, "FileNotFoundError")
    /\ UNCHANGED <<calls, merges, loads, answered>>

\* yield rdfox: the caller's with block has the endpoint
StepYield ==
    /\ Stmt = "yield"
    /\ ~run.yielded
    /\ run' = [run EXCEPT !.yielded = TRUE]
    /\ UNCHANGED <<calls, merges, loads, answered>>

\* the caller's block ends and the generator is resumed
BodyReturns ==
    /\ Stmt = "yield"
    /\ run.yielded
    /\ run' = Advance(run)
    /\ UNCHANGED <<calls, merges, loads, answered>>

\* the caller's block raises: the exception is thrown into the generator at
\* its yield
BodyRaises ==
    /\ Stmt = "yield"
    /\ run.yielded
    /\ run' = Raise(run, "CallerError")
    /\ UNCHANGED <<calls, merges, loads, answered>>

\* RDFoxRunner.__exit__, then a pending exception goes on to the caller
StepExit ==
    /\ Stmt \in {"with_exit", "exit"}
    /\ LET r == [run EXCEPT !.session = SessionStopped(run.session)]
       IN run' = IF run.pending = "" THEN Advance(r)
                 ELSE [r EXCEPT !.status = "raised", !.exc = run.pending]
    /\ UNCHANGED <<calls, merges, loads, answered>>

-----------------------------------------------------------------------------
(* runners.py: answer_queries *)

QueryTexts == {<<"SELECT ?a">>, <<"SELECT ?b">>}

QueryNames == {Str(<<"first">>), Str(<<"second">>)}

\* the key enumerate() gives an element of a list
IntKey(i) == Obj("int", <<ToString(i)>>)

Queries(type, items) == [type |-> type, items |-> items]

\* the queries argument: a list of texts, a dict from name to text, or
\* something else (a tuple of texts, a single text, None)
QueriesArgs ==
    {Queries(type, items) :
        type \in {"list", "tuple"},
        items \in {<<>>} \cup SeqsUpTo({<<None, q>> : q \in QueryTexts}, MaxFiles)}
    \cup {Queries("dict", items) :
            items \in {it \in {<<>>} \cup SeqsUpTo(QueryNames \X QueryTexts, MaxFiles) :
                         \A i, j \in DOMAIN it : it[i][1] = it[j][1] => i = j}}
    \cup {Queries("str", <<<<None, q>>>>) : q \in QueryTexts}
    \cup {Queries("None", <<>>)}

\* what rdfox.query_records returns for the n-th query submitted
query_records(query_text, n) == [query |-> query_text, n |-> n]

Answered(exc, type, submitted, answers) ==
    [exc |-> exc, type |-> type, submitted |-> submitted, answers |-> answers]

\* answer_queries with the list's queries numbered from 1
answer_queries_from_one(queries, fails_at) ==
    LET as_dict == IF queries.type = "list"
                   THEN [i \in DOMAIN queries.items |->
                            <<IntKey(i), queries.items[i][2]>>]
                   ELSE queries.items
    IN IF queries.type \notin {"list", "dict"}
       THEN Answered("ValueError: query should be list or dict", "none", <<>>, <<>>)
       ELSE Answered("", "dict",
                     [i \in DOMAIN as_dict |-> as_dict[i][2]],
                     [i \in DOMAIN as_dict |->
                         <<as_dict[i][1], query_records(as_dict[i][2], i)>>])

\* answer_queries(rdfox, queries); the query numbered fails_at, if there is
\* one, makes rdfox.query_records raise
answer_queries(queries, fails_at) ==
    LET as_dict == IF queries.type = "list"
                   THEN [i \in DOMAIN queries.items |->
                            <<IntKey(i - 1), queries.items[i][2]>>]
                   ELSE queries.items
    IN IF queries.type \notin {"list", "dict"}
       THEN Answered("ValueError: query should be list or dict", "none", <<>>, <<>>)
       ELSE IF fails_at \in DOMAIN as_dict
       THEN Answered("QueryError", "none",
                     [i \in 1..fails_at |-> as_dict[i][2]], <<>>)
       ELSE Answered("", "dict",
                     [i \in DOMAIN as_dict |-> as_dict[i][2]],
                     [i \in DOMAIN as_dict |->
                         <<as_dict[i][1], query_records(as_dict[i][2], i)>>])

AnswerQueries ==
    /\ Len(answered) < MaxCalls
    /\ \E queries \in QueriesArgs, fails_at \in 0..MaxFiles :
          answered' = Append(answered, [queries |-> queries, fails_at |-> fails_at,
                                        out |-> answer_queries(queries, fails_at)])
    /\ UNCHANGED <<calls, merges, run, loads>>

-----------------------------------------------------------------------------
(* datasource.py: load_datasource *)

\* a path and what is found there: whether it is a directory, whether it
\* has load_data.rdfox and map.dlog, and what the two globs return
Directory(path, is_dir, has_load_data, has_map, csv, ttl) ==
    [path |-> path, is_dir |-> is_dir, has_load_data |-> has_load_data,
     has_map |-> has_map, csv |-> csv, ttl |-> ttl]

\* the files of a kind in a directory, in any order the glob may return
Globs(ext) ==
    {<<>>, << <<"x", ext>> >>, << <<"y", ext>> >>,
     << <<"x", ext>>, <<"y", ext>> >>, << <<"y", ext>>, <<"x", ext>> >>}

DirPaths == {<<"d">>, <<"p", "/", "d">>}

\* the directories, and paths that are not a directory
Directories ==
    {Directory(path, TRUE, has_load_data, has_map, csv, ttl) :
        path \in DirPaths, has_load_data \in BOOLEAN, has_map \in BOOLEAN,
        csv \in Globs(".csv"), ttl \in Globs(".ttl")}
    \cup {Directory(path, FALSE, FALSE, FALSE, <<>>, <<>>) : path \in DirPaths}

\* path / name
Child(path, name) == path \o <<"/">> \o name

\* line 119: list(path.glob("*.csv")) + list(path.glob("*.ttl"))
DataFiles(dir) ==
    ListOf([i \in DOMAIN dir.csv |-> Child(dir.path, dir.csv[i])]
           \o [i \in DOMAIN dir.ttl |-> Child(dir.path, dir.ttl[i])])

load_datasource(dir) ==
    IF ~dir.is_dir THEN Raised("NotADirectoryError", {})
    ELSE LET load_data_script ==
                 IF dir.has_load_data
                 THEN Path(Child(dir.path, <<"load_data.rdfox">>)) ELSE Str(<<>>)
             rules ==
                 IF dir.has_map
                 THEN Path(Child(dir.path, <<"map.dlog">>)) ELSE Str(<<>>)
         IN from_files(DataFiles(dir), load_data_script, rules)

LoadDatasource ==
    /\ loads = <<>>
    /\ \E dir \in Directories :
          loads' = Append(loads, [dir |-> dir, out |-> load_datasource(dir)])
    /\ UNCHANGED <<calls, merges, run, answered>>

Init ==
    /\ calls = <<>>
    /\ merges = <<>>
    /\ run = Idle
    /\ loads = <<>>
    /\ answered = <<>>

Next == FromFacts \/ FromFiles

Spec == Init /\ [][Next]_vars

NextFacts == FromFacts

SpecFacts == Init /\ [][NextFacts]_vars

NextOnce == FromFactsOnce \/ FromFilesOnce

SpecOnce == Init /\ [][NextOnce]_vars

NextQuery == AnswerQueries

SpecQuery == Init /\ [][NextQuery]_vars

NextLoad == LoadDatasource

SpecLoad == Init /\ [][NextLoad]_vars

NextMerge == AddDatasources \/ AddDatasourcesAgain

SpecMerge == Init /\ [][NextMerge]_vars

NextRun ==
    \/ RunCall
    \/ StepStandard
    \/ StepAddDatasources
    \/ StepStage
    \/ StepPortDefault
    \/ StepScript
    \/ StepEnter
    \/ StepCopy
    \/ StepYield
    \/ BodyReturns
    \/ BodyRaises
    \/ StepExit

SpecRun == Init /\ [][NextRun]_vars

\* one factory call, or one runner call
FactoryCall ==
    /\ run.status = "idle"
    /\ NextOnce

RunnerStep ==
    /\ calls = <<>>
    /\ NextRun

NextEmit == FactoryCall \/ RunnerStep

SpecEmit == Init /\ [][NextEmit]_vars

-----------------------------------------------------------------------------
(* Claims about the factories, checked under Spec *)

FilesCalls == {i \in DOMAIN calls : calls[i].op = "from_files"}
FactsCalls == {i \in DOMAIN calls : calls[i].op = "from_facts"}
ReturnedCall(i) == calls[i].out.exc = ""
InputFilesOf(i) == calls[i].out.ds.input_files

\* the source files a from_files call was given
SourcesOf(i) == {it[2] : it \in Range(calls[i].files.items)}

\* the names the files of a from_files call are staged under
NamesOf(i) ==
    [k \in DOMAIN calls[i].files.items |->
        IF calls[i].files.form = "list"
        THEN PathName(calls[i].files.items[k][2].s)
        ELSE calls[i].files.items[k][1].s]

DistinctNames(i) == \A k, l \in DOMAIN NamesOf(i) : NamesOf(i)[k] = NamesOf(i)[l] => k = l

\* C1: two datasources built by from_files from different sets of source files
\* never bind the same staged target path to different sources, and two
\* list-form datasources with a shared base name in different directories
\* have disjoint staged target paths.
C1_CollisionIsolation ==
    \A i, j \in FilesCalls :
        (ReturnedCall(i) /\ ReturnedCall(j) /\ SourcesOf(i) # SourcesOf(j)) =>
            /\ \A k \in Keys(InputFilesOf(i)) \cap Keys(InputFilesOf(j)) :
                  Get(InputFilesOf(i), k) = Get(InputFilesOf(j), k)
            /\ ( /\ calls[i].files.form = "list"
                 /\ calls[j].files.form = "list"
                 /\ \E p \in SourcesOf(i), q \in SourcesOf(j) :
                       p # q /\ PathName(p.s) = PathName(q.s) )
               => Keys(InputFilesOf(i)) \cap Keys(InputFilesOf(j)) = {}

Extensions(i) == {PathSuffix(NamesOf(i)[k]) : k \in DOMAIN NamesOf(i)}

\* a call that the specification lets succeed: distinct names and, without a
\* load instruction, only extensions of the allow-list
Acceptable(i) ==
    /\ DistinctNames(i)
    /\ calls[i].script.type = "None" => Extensions(i) \subseteq auto_suffices

\* C3: two from_files calls with the same source files but different
\* load_data_script or different rules return datasources with equal
\* input_files, and the two Datasource values are unequal.
C3_NamespaceIgnoresInstructions ==
    \A i, j \in FilesCalls :
        ( /\ calls[i].files = calls[j].files
          /\ (calls[i].script # calls[j].script \/ calls[i].rules # calls[j].rules)
          /\ Acceptable(i) /\ Acceptable(j) ) =>
            /\ ReturnedCall(i) /\ ReturnedCall(j)
            /\ DictEq(InputFilesOf(i), InputFilesOf(j))
            /\ ~DatasourceEq(calls[i].out.ds, calls[j].out.ds)

\* the import lines of a load_data_script, one per staged name
ImportsAll(i) ==
    \A k \in DOMAIN NamesOf(i) :
        \E at \in 1..Len(calls[i].out.ds.load_data_script) :
            SubSeq(calls[i].out.ds.load_data_script, at,
                   at + Len(NamesOf(i)[k]) + 1)
              = <<"import \"$(dir.datasource)/">> \o NamesOf(i)[k] \o <<"\"">>

\* C6: from_files without a load instruction succeeds, with a script that
\* imports every input file, exactly when every extension is in the
\* allow-list, and otherwise raises a ValueError naming exactly the
\* offending extensions; with a load instruction it succeeds for any
\* extensions.
C6_AutoLoadRule ==
    \A i \in FilesCalls :
        DistinctNames(i) =>
            IF calls[i].script.type # "None" THEN ReturnedCall(i)
            ELSE IF Extensions(i) \subseteq auto_suffices
                 THEN ReturnedCall(i) /\ ImportsAll(i)
                 ELSE /\ calls[i].out.exc = "ValueError: cannot automatically load"
                      /\ calls[i].out.offending = Extensions(i) \ auto_suffices

-----------------------------------------------------------------------------
(* Claims about the merge, checked under SpecMerge *)

\* every <<target, source>> of the datasources of a merge, in the order of
\* the merge
Flat(m) == Concat([i \in DOMAIN m.datasources |-> m.datasources[i].input_files])

\* the keys present before the first datasource is added
BaseKeys(m) == Keys(m.start) \cup {Str(LOAD_DATA), Str(MAP_DLOG)}

\* the positions of Flat(m) whose target is already present
Collisions(m) ==
    {k \in DOMAIN Flat(m) :
        \/ Flat(m)[k][1] \in BaseKeys(m)
        \/ \E l \in 1..(k - 1) : Flat(m)[l][1] = Flat(m)[k][1]}

DuplicateEntry == "ValueError: Duplicate entry in input_files"

\* C4: a datasource target path equal to a key already in the map, from the
\* standard assets or an earlier datasource, makes the merge raise the
\* duplicate-entry error and no existing binding is overwritten; a merge
\* that returns has bound every target path to its own source.
C4_DuplicateEntryError ==
    \A i \in DOMAIN merges :
        LET m == merges[i]
            result == m.out.input_files
        IN /\ (Collisions(m) # {}) <=> (m.out.exc = DuplicateEntry)
           /\ \A k \in Keys(m.start) : k \in Keys(result) /\ Get(result, k) = Get(m.start, k)
           /\ \A key \in Keys(result) \ BaseKeys(m) :
                 \E k \in DOMAIN Flat(m) :
                     /\ Flat(m)[k][1] = key
                     /\ \A l \in 1..(k - 1) : Flat(m)[l][1] # key
                     /\ Get(result, key) = Flat(m)[k][2]
           /\ m.out.exc = "" =>
                 \A k \in DOMAIN Flat(m) :
                     /\ Flat(m)[k][1] \in Keys(result)
                     /\ Get(result, Flat(m)[k][1]) = Flat(m)[k][2]

C4_Witness ==
    /\ Len(merges) = 2
    /\ merges[1].out.exc = DuplicateEntry
    /\ merges[1].out.tgt = Str(PROBS_FSS)
    /\ merges[2].out.exc = DuplicateEntry
    /\ merges[2].out.tgt \notin BaseKeys(merges[2])
    /\ Len(merges[2].datasources) = 2

\* text i of a list of texts, preceded by a newline unless it is the first
Piece(texts, i) == IF i = 1 THEN texts[i] ELSE <<"\n">> \o texts[i]

InOrder(texts) == Concat([i \in DOMAIN texts |-> Piece(texts, i)])

Reverse(seq) == [i \in DOMAIN seq |-> seq[Len(seq) + 1 - i]]

Accumulators == {Str(LOAD_DATA), Str(MAP_DLOG)}

\* C5: merging [A, B] and [B, A], whose target paths do not collide, gives
\* staged file maps equal on every key but the two accumulator targets, and
\* each accumulator holds the newline-joined load_data_script (or rules) of
\* the datasources in the order of the list.
C5_MergeDeterminism ==
    \A i, j \in DOMAIN merges :
        LET m == merges[i]
            n == merges[j]
        IN ( /\ Len(m.datasources) = 2
             /\ n.datasources = Reverse(m.datasources)
             /\ n.start = m.start
             /\ Collisions(m) = {} ) =>
              /\ m.out.exc = "" /\ n.out.exc = ""
              /\ Keys(m.out.input_files) = Keys(n.out.input_files)
              /\ \A k \in Keys(m.out.input_files) \ Accumulators :
                    Get(m.out.input_files, k) = Get(n.out.input_files, k)
              /\ Get(m.out.input_files, Str(LOAD_DATA)) =
                    StringIO(InOrder([d \in 1..2 |-> m.datasources[d].load_data_script]))
              /\ Get(m.out.input_files, Str(MAP_DLOG)) =
                    StringIO(InOrder([d \in 1..2 |-> m.datasources[d].rules]))
              /\ Get(n.out.input_files, Str(LOAD_DATA)) =
                    StringIO(InOrder([d \in 1..2 |-> m.datasources[3 - d].load_data_script]))
              /\ Get(n.out.input_files, Str(MAP_DLOG)) =
                    StringIO(InOrder([d \in 1..2 |-> m.datasources[3 - d].rules]))

C5_Witness ==
    /\ Len(merges) = 2
    /\ Len(merges[1].datasources) = 2
    /\ merges[1].datasources[1] # merges[1].datasources[2]
    /\ merges[2].datasources = Reverse(merges[1].datasources)
    /\ merges[2].start = merges[1].start
    /\ Collisions(merges[1]) = {}
    /\ merges[1].out.exc = "" /\ merges[2].out.exc = ""
    /\ Get(merges[1].out.input_files, Str(LOAD_DATA))
         # Get(merges[2].out.input_files, Str(LOAD_DATA))

-----------------------------------------------------------------------------
(* Claims about the runner functions, checked under SpecRun *)

\* C7: when the caller's block raises after an endpoint runner has yielded
\* the endpoint, the exception that reaches the caller is the caller's own,
\* and by then the engine process is terminated and an owned temporary
\* working directory is removed.
C7_TeardownGuarantee ==
    (run.fn \in EndpointRunners /\ run.yielded /\ run.status = "raised") =>
        /\ run.exc = "CallerError"
        /\ run.session.proc = "terminated"
        /\ run.session.owned => run.session.workdir = "removed"

C7_Witness ==
    /\ run.fn \in EndpointRunners
    /\ run.yielded
    /\ run.status = "raised"
    /\ run.exc = "CallerError"
    /\ run.session.owned
    /\ run.session.workdir = "removed"
    /\ run.session.proc = "terminated"

\* C8: a configuration error, a validation error or a staging collision
\* reaches the caller of a runner function before any engine session is
\* created: no engine process launched, no working directory materialized.
C8_FailFastBeforeLaunch ==
    (run.status = "raised"
       /\ run.exc \in {"ConfigurationError", DuplicateEntry, "TypeError: int() argument"}) =>
        /\ ~run.session.created
        /\ run.session.proc = "none"
        /\ run.session.workdir = "none"

DefaultPortLine == <<"set endpoint.port \"", "12112", "\"">>

\* C9: an endpoint runner called without a port or with port=None composes
\* set endpoint.port "12112" and does not raise over the port.
C9_PortDefault ==
    (run.fn \in EndpointRunners /\ run.port_arg.kind \in {"omitted", "None"}) =>
        /\ run.exc # "TypeError: int() argument"
        /\ run.script # <<>> => Head(run.script) = DefaultPortLine

\* C10: an endpoint runner called with a falsy port such as 0 composes the
\* directive with the default port 12112; the port written is the caller's
\* explicit non-falsy port or the default.
C10_FalsyPortFallback ==
    (run.fn \in EndpointRunners /\ run.script # <<>>) =>
        Head(run.script) =
            IF run.port_arg.kind = "int" /\ run.port_arg.n # 0
            THEN SetEndpointPort(run.port_arg.n)
            ELSE DefaultPortLine

\* the shapes of the lines of a composed script
IsPortDirective(line) ==
    /\ Len(line) = 3
    /\ line[1] = "set endpoint.port \""
    /\ line[3] = "\""

IsExec(line) == Len(line) = 2 /\ line[1] = "exec "

Execs(script) == {k \in DOMAIN script : IsExec(script[k])}

PortDirectives(script) == {k \in DOMAIN script : IsPortDirective(script[k])}

\* C11: in the script an endpoint runner composes, the first line is the
\* set endpoint.port directive, there is exactly one, and it comes before
\* every exec line.
C11_EndpointConfigurationFirst ==
    (run.fn \in EndpointRunners /\ run.script # <<>>) =>
        /\ PortDirectives(run.script) = {1}
        /\ run.script[1] = SetEndpointPort(run.port.n)
        /\ \A k \in Execs(run.script) : k > 1

C11_Witness ==
    /\ run.fn \in EndpointRunners
    /\ run.port_arg = Port("int", 8080)
    /\ run.script # <<>>
    /\ Execs(run.script) # {}
    /\ run.script[1] = <<"set endpoint.port \"", "8080", "\"">>

\* the master script of the stage of a single-purpose data runner
MasterOf(fn) ==
    IF fn = "probs_convert_data"
    THEN Exec("scripts/data-conversion/master")
    ELSE Exec("scripts/data-enhancement/master")

\* C12: the scripts of probs_convert_data and probs_enhance_data exec exactly
\* one script, the master script of their stage, and no script of a data
\* runner has a set endpoint.port directive.
C12_SinglePurpose ==
    (run.fn \in DataRunners /\ run.script # <<>>) =>
        /\ PortDirectives(run.script) = {}
        /\ run.fn \in {"probs_convert_data", "probs_enhance_data"} =>
              /\ Cardinality(Execs(run.script)) = 1
              /\ \A k \in Execs(run.script) : run.script[k] = MasterOf(run.fn)

C12_Witness ==
    /\ run.fn = "probs_enhance_data"
    /\ run.script = <<Exec("scripts/data-enhancement/master"), Quit>>
    /\ run.status = "returned"


Min(S) == CHOOSE x \in S : \A y \in S : x <= y

RECURSIVE Lines(_)
\* the lines of a text, as the engine reads them
Lines(text) ==
    IF text = <<>> THEN <<>>
    ELSE LET nl == {i \in DOMAIN text : text[i] = "\n"}
         IN IF nl = {} THEN <<text>>
            ELSE <<SubSeq(text, 1, Min(nl) - 1)>>
                 \o Lines(SubSeq(text, Min(nl) + 1, Len(text)))

\* the requests that resume from existing artifacts
ResumeRunners == {"probs_enhance_data", "probs_enhance_endpoint", "probs_endpoint"}

\* a staged instruction file that imports the staged names, in order
ImportsInOrder(input_files, names) ==
    \E k \in Keys(input_files) :
        /\ Get(input_files, k).type = "StringIO"
        /\ Lines(Get(input_files, k).s)
             = [i \in DOMAIN names |-> <<"import ">> \o PathName(names[i].s)]

\* C13: a resume runner given a list of artifacts stages each artifact under
\* its own distinct name, also when the base names are the same, and stages
\* an import instruction file that names every staged artifact once, in the
\* order of the list.
C13_MultiInputResume ==
    \A l \in ArtifactLists :
        ( /\ run.fn \in ResumeRunners
          /\ run.data_path = TupleOf(l)
          /\ run.script # <<>> ) =>
            \E names \in [DOMAIN l -> Keys(run.input_files)] :
                /\ \A i, j \in DOMAIN l : names[i] = names[j] => i = j
                /\ \A i \in DOMAIN l : Get(run.input_files, names[i]) = Path(l[i])
                /\ ImportsInOrder(run.input_files, names)


-----------------------------------------------------------------------------
(* Claims about one factory call, checked under SpecOnce *)

ListCalls == {i \in FilesCalls : calls[i].files.form = "list"}

DuplicatePathName == "ValueError: Duplicate path name in list"

\* C14: from_files given a list in which two paths have the same file name
\* raises the duplicate-name ValueError and returns no Datasource; with
\* distinct file names every file is staged under its own file name.
C14_DuplicateBareNames ==
    \A i \in ListCalls :
        IF ~DistinctNames(i)
        THEN /\ calls[i].out.exc = DuplicatePathName
             /\ calls[i].out.ds = NoDatasource
        ELSE /\ calls[i].out.exc # DuplicatePathName
             /\ ReturnedCall(i) =>
                  /\ Len(InputFilesOf(i)) = Len(calls[i].files.items)
                  /\ \A k \in DOMAIN calls[i].files.items :
                        LET source_path == calls[i].files.items[k][2]
                        IN \E key \in Keys(InputFilesOf(i)) :
                              /\ PathName(key.s) = PathName(source_path.s)
                              /\ Get(InputFilesOf(i), key) = source_path

C14_Witness ==
    \E i \in ListCalls :
        /\ Len(calls[i].files.items) = 2
        /\ calls[i].files.items[1][2] # calls[i].files.items[2][2]
        /\ ~DistinctNames(i)
        /\ calls[i].out.exc = DuplicatePathName


\* the target names and sources from_files works with (lines 57-65)
NamedFiles(files) ==
    IF files.form = "list" THEN NamesFromList(files.items, <<>>).d ELSE files.items

\* the Datasource lines 80-98 build for the files of call i when the
\* load_data_script is generated
AutoBuilt(i) ==
    LET input_files == NamedFiles(calls[i].files)
        datasource_name == DatasourceName(input_files)
    IN WithScript(FullInputFiles(datasource_name, input_files), datasource_name,
                  AutoScript(input_files), calls[i].rules).ds

\* the instruction text call i supplied
SuppliedText(i) ==
    IF calls[i].script.type = "Path" THEN read_text(calls[i].script)
    ELSE calls[i].script.s

IsDirDirective(line) ==
    /\ Len(line) >= 2
    /\ line[1] = "set dir.datasource \"$(dir.root)/data/"
    /\ line[Len(line)] = "/\""

\* the sub-folder of data/ a set dir.datasource line names
FolderOf(line) == SubSeq(line, 2, Len(line) - 1)

\* key is a path in the sub-folder of data/ called folder
InFolder(key, folder) ==
    /\ Len(key.s) > Len(folder) + 3
    /\ SubSeq(key.s, 1, Len(folder) + 3) = <<"data", "/">> \o folder \o <<"/">>

\* ds.load_data_script is a set dir.datasource line naming the folder of
\* the files of ds, then text unchanged
Prefixed(ds, text) ==
    /\ Lines(ds.load_data_script) # <<>>
    /\ LET line == Lines(ds.load_data_script)[1]
       IN /\ IsDirDirective(line)
          /\ FolderOf(line) # <<>>
          /\ \A key \in Keys(ds.input_files) : InFolder(key, FolderOf(line))
          /\ ds.load_data_script = line \o <<"\n">> \o text

IsPlainImport(line) == Len(line) >= 2 /\ line[1] = "import "

IsDirImport(line) ==
    /\ Len(line) >= 3
    /\ line[1] = "import \"$(dir.datasource)/"
    /\ line[Len(line)] = "\""

ImportLines(script) ==
    {k \in DOMAIN Lines(script) :
        IsPlainImport(Lines(script)[k]) \/ IsDirImport(Lines(script)[k])}

\* the staged path import line k of the script names: a plain name is a file
\* of data/, a name under $(dir.datasource) a file of the folder the script's
\* set dir.datasource line names
Imported(script, k) ==
    LET line == Lines(script)[k]
    IN IF IsPlainImport(line) THEN <<"data", "/">> \o Tail(line)
       ELSE <<"data", "/">> \o FolderOf(Lines(script)[1]) \o <<"/">>
            \o SubSeq(line, 2, Len(line) - 1)

\* every import of ds names a key of its input_files, and every key is
\* imported by exactly one line
ImportsItsFiles(ds) ==
    /\ \A k \in ImportLines(ds.load_data_script) :
          \E key \in Keys(ds.input_files) : key.s = Imported(ds.load_data_script, k)
    /\ \A key \in Keys(ds.input_files) :
          Cardinality({k \in ImportLines(ds.load_data_script) :
                          Imported(ds.load_data_script, k) = key.s}) = 1

-----------------------------------------------------------------------------
(* Claims about the data runners, checked under SpecRun *)

\* the session after its teardown: no running process, no owned directory
TornDown(session) ==
    /\ session.created
    /\ session.proc # "running"
    /\ session.owned => session.workdir = "removed"

\* C17: a data runner returns only after the engine ran to completion and
\* the artifact was copied; the copy is made while the session is open,
\* before its teardown; when the artifact is missing the call raises after
\* the teardown.
C17_ArtifactReadiness ==
    [][ run'.fn \in DataRunners =>
          /\ (run'.copied /\ ~run.copied) =>
                /\ run.session.created
                /\ run.session.proc = "exited"
                /\ run.session.workdir = "exists"
                /\ run'.session = run.session
          /\ run'.status = "returned" =>
                /\ run'.copied
                /\ run'.session.proc = "exited"
                /\ TornDown(run'.session)
          /\ (run'.status = "raised" /\ run'.exc = "FileNotFoundError") =>
                /\ ~run'.copied
                /\ TornDown(run'.session) ]_vars

C17_Witness ==
    /\ run.fn \in DataRunners
    /\ run.status = "returned"
    /\ run.copied
    /\ run.session.owned
    /\ run.session.workdir = "removed"
    /\ run.session.proc = "exited"


-----------------------------------------------------------------------------
(* Claims about answer_queries, checked under SpecQuery *)

NotListOrDict == "ValueError: query should be list or dict"

\* the queries of call a were each submitted once, in the order given, and
\* entry i of the answers is what the i-th submission returned
AnsweredInOrder(a) ==
    /\ a.out.submitted = [i \in DOMAIN a.queries.items |-> a.queries.items[i][2]]
    /\ Len(a.out.answers) = Len(a.queries.items)
    /\ \A i \in DOMAIN a.queries.items :
          /\ a.out.answers[i][2] = query_records(a.queries.items[i][2], i)
          /\ a.out.answers[i][1] = IF a.queries.type = "dict"
                                   THEN a.queries.items[i][1]
                                   ELSE IntKey(i - 1)

\* C18 as stated: answer_queries takes a dict or a list of query texts,
\* submits each query once in input order and returns a structure of the
\* shape of its input with one record list per query; any other argument
\* raises before a query is submitted.
C18_QueryResultShape ==
    \A k \in DOMAIN answered :
        LET a == answered[k]
        IN IF a.queries.type \in {"list", "dict"}
           THEN a.out.exc = "" => AnsweredInOrder(a) /\ a.out.type = a.queries.type
           ELSE a.out.exc = NotListOrDict /\ a.out.submitted = <<>>

\* C18 as amended: the structure returned is a dict for both forms, keyed by
\* the names of a dict and by the positions 0, 1, ... of a list.
C18_QueryResultsByKey ==
    \A k \in DOMAIN answered :
        LET a == answered[k]
        IN IF a.queries.type \in {"list", "dict"}
           THEN a.out.exc = "" => AnsweredInOrder(a) /\ a.out.type = "dict"
           ELSE a.out.exc = NotListOrDict /\ a.out.submitted = <<>>

C18_Witness ==
    \E k \in DOMAIN answered :
        /\ answered[k].queries.type = "list"
        /\ Len(answered[k].queries.items) = 2
        /\ answered[k].queries.items[1] # answered[k].queries.items[2]
        /\ answered[k].out.exc = ""
        /\ Keys(answered[k].out.answers) = {IntKey(0), IntKey(1)}
        /\ Get(answered[k].out.answers, IntKey(1))
             = query_records(answered[k].queries.items[2][2], 2)


-----------------------------------------------------------------------------
(* Claims about the generated text, checked under SpecEmit *)

IsSetDirective(line) == IsPortDirective(line) \/ IsDirDirective(line)

IsImport(line) == IsPlainImport(line) \/ IsDirImport(line)

IsQuit(line) == line = <<"quit">>

IsComment(line) == Len(line) = 1 /\ line[1] = "# Auto generated to load TTL files"

Directive(line) == IsSetDirective(line) \/ IsExec(line) \/ IsImport(line) \/ IsQuit(line)

\* the lines the factories generate in call i: the script of from_facts, the
\* first line of a script of from_files, and, for a from_files call without
\* load_data_script, the load script lines 80-82 generate for its files
GeneratedLines(i) ==
    IF calls[i].op = "from_facts"
    THEN Range(Lines(calls[i].out.ds.load_data_script))
    ELSE (IF ReturnedCall(i)
          THEN {Lines(calls[i].out.ds.load_data_script)[1]} ELSE {})
         \cup (IF calls[i].script.type = "None" /\ DistinctNames(i)
               THEN Range(Lines(AutoScript(NamedFiles(calls[i].files)))) ELSE {})

-----------------------------------------------------------------------------
(* Claims about load_datasource, checked under SpecLoad *)

\* from_files applied to the data files of a directory with the load
\* instruction and the rules that are present
Delegated(dir) ==
    from_files(DataFiles(dir),
               IF dir.has_load_data
               THEN Path(Child(dir.path, <<"load_data.rdfox">>)) ELSE None,
               IF dir.has_map
               THEN Path(Child(dir.path, <<"map.dlog">>)) ELSE None)

\* C20: load_datasource of a directory has the outcome of from_files applied
\* to the directory's data files with the load instruction and rules that
\* are present; without a load instruction file it is the no-instruction
\* case of from_files, never a datasource whose load script imports nothing.
C20_LoadDatasourceDelegation ==
    \A k \in DOMAIN loads :
        LET dir == loads[k].dir
            out == loads[k].out
        IN dir.is_dir =>
              /\ out = Delegated(dir)
              /\ (~dir.has_load_data /\ out.exc = "") =>
                    ImportLines(out.ds.load_data_script) # {}


-----------------------------------------------------------------------------
(* Claims about merging datasources of identical facts, checked under
   SpecMerge *)

\* the one staged path of a datasource returned by from_facts
StagedPath(ds) == ds.input_files[1][1]

\* the bindings of a key in a staged file map
Bindings(input_files, key) == {k \in DOMAIN input_files : input_files[k][1] = key}

\* the requests made of exactly two datasources returned by from_facts for
\* one text
TwiceTheSameFacts ==
    {i \in DOMAIN merges :
        /\ Len(merges[i].datasources) = 2
        /\ merges[i].datasources[1] = merges[i].datasources[2]
        /\ \E t \in FactTokens : merges[i].datasources[1] = from_facts(<<t>>).ds}

\* C21 as stated: two datasources returned by from_facts for identical text,
\* which share their staged path, can be supplied together in one request:
\* the merge into the staged file map succeeds with the shared path bound
\* once and does not raise the duplicate-entry error.
C21_SafeMergeOfIdenticalFacts ==
    \A i \in TwiceTheSameFacts :
        LET m == merges[i]
            shared == StagedPath(m.datasources[1])
        IN /\ m.out.exc = ""
           /\ Cardinality(Bindings(m.out.input_files, shared)) = 1

\* C21 as the code has it: two datasources returned by from_facts for
\* identical text share their staged path, and a request that is given both
\* raises the duplicate-entry error; supplied as the only two, the error
\* names the shared path, which is left bound once, to the text of the
\* first.
C21_IdenticalFactsCollide ==
    \A i \in DOMAIN merges :
        LET m == merges[i]
            ds == m.datasources
        IN /\ \A a, b \in DOMAIN ds :
                 \A t \in FactTokens :
                    ( /\ a < b
                      /\ ds[a] = from_facts(<<t>>).ds
                      /\ ds[b] = from_facts(<<t>>).ds ) =>
                       /\ StagedPath(ds[a]) = StagedPath(ds[b])
                       /\ m.out.exc = DuplicateEntry
           /\ i \in TwiceTheSameFacts =>
                 /\ m.out.tgt = StagedPath(ds[1])
                 /\ Cardinality(Bindings(m.out.input_files, StagedPath(ds[1]))) = 1
                 /\ Get(m.out.input_files, StagedPath(ds[1])) = ds[1].input_files[1][2]

C21_Witness ==
    \E i \in TwiceTheSameFacts :
        /\ merges[i].out.exc = DuplicateEntry
        /\ merges[i].out.tgt =
              Str(<<"data", "/">> \o md5hex(<<":A">>) \o <<".ttl">>)
        /\ Get(merges[i].out.input_files, merges[i].out.tgt) = StringIO(<<":A">>)


-----------------------------------------------------------------------------
(* Claims about the sequence of the stage scripts, checked under SpecRun *)

\* the stages of the pipeline, in pipeline order
PipelineOrder == <<"conversion", "enhancement", "reasoning">>

PipelineStages == Range(PipelineOrder)

\* the place of a stage in the pipeline
Rank(stage) == CHOOSE k \in DOMAIN PipelineOrder : PipelineOrder[k] = stage

\* the master script of a stage, and its variant for chained stages
MasterScript(stage) ==
    CASE stage = "conversion" -> Exec("scripts/data-conversion/master")
      [] stage = "enhancement" -> Exec("scripts/data-enhancement/master")
      [] stage = "reasoning" -> Exec("scripts/reasoning/master")

MasterPipelineScript(stage) ==
    CASE stage = "conversion" -> Exec("scripts/data-conversion/master-pipeline")
      [] stage = "enhancement" -> Exec("scripts/data-enhancement/master-pipeline")
      [] stage = "reasoning" -> Exec("scripts/reasoning/master-pipeline")

SetupRDFox == Exec("scripts/shared/setup-RDFox")

\* the stage a request starts from: the one that reads what it is given
StartingStage(fn) ==
    IF fn \in ConvertRunners THEN "conversion"
    ELSE IF fn = "probs_endpoint" THEN "reasoning"
    ELSE "enhancement"

\* the stage a request ends with: the one that gives what it returns
FinalStage(fn) ==
    IF fn \in EndpointRunners THEN "reasoning"
    ELSE IF fn = "probs_convert_data" THEN "conversion"
    ELSE "enhancement"

ChainedRunners == {fn \in Runners : Rank(StartingStage(fn)) < Rank(FinalStage(fn))}

\* every stage from the starting stage up to and including the final stage
StagesBetween(fn) ==
    {st \in PipelineStages :
        Rank(StartingStage(fn)) <= Rank(st) /\ Rank(st) <= Rank(FinalStage(fn))}

\* the stages the runner function is documented to run
StagesNamed(fn) ==
    IF fn = "probs_convert_endpoint" THEN {"conversion", "reasoning"}
    ELSE StagesBetween(fn)

StageScript(fn, stage) ==
    IF fn \in ChainedRunners THEN MasterPipelineScript(stage) ELSE MasterScript(stage)

\* the positions of a script that run a stage, in either variant
StagePositions(script, stage) ==
    {k \in DOMAIN script : script[k] \in {MasterScript(stage), MasterPipelineScript(stage)}}

\* the script runs exactly the given stages, each once and in its variant
\* for the request, in pipeline order, the shared setup before the first
\* master-pipeline script
Sequenced(fn, script, stages) ==
    /\ \A st \in PipelineStages :
          IF st \in stages
          THEN /\ Cardinality(StagePositions(script, st)) = 1
               /\ \A k \in StagePositions(script, st) : script[k] = StageScript(fn, st)
          ELSE StagePositions(script, st) = {}
    /\ \A a, b \in stages :
          Rank(a) < Rank(b) => \A k \in StagePositions(script, a), l \in StagePositions(script, b) : k < l
    /\ \A k \in DOMAIN script :
          (\E st \in PipelineStages : script[k] = MasterPipelineScript(st)) =>
              \E j \in 1..(k - 1) : script[j] = SetupRDFox

\* C22 as stated: the script of every multi-stage or endpoint-producing
\* request runs the stage script of every stage from its starting stage up
\* to and including its final stage, in the order conversion, enhancement,
\* reasoning with no stage skipped; exec scripts/shared/setup-RDFox comes
\* before the first master-pipeline script, and chained requests use the
\* master-pipeline variants.
C22_StageSequencing ==
    (run.fn \in ChainedRunners \cup EndpointRunners /\ run.script # <<>>) =>
        Sequenced(run.fn, run.script, StagesBetween(run.fn))

\* C22 as the code has it: the same, for the stages the request names:
\* probs_convert_endpoint goes from conversion straight to reasoning and
\* runs no enhancement script; every other request runs every stage from
\* its starting stage to its final stage.
C22_StagesNamedInOrder ==
    (run.fn \in ChainedRunners \cup EndpointRunners /\ run.script # <<>>) =>
        Sequenced(run.fn, run.script, StagesNamed(run.fn))

C22_Witness ==
    /\ run.fn = "probs_convert_endpoint"
    /\ run.yielded
    /\ run.script = <<SetEndpointPort(8080),
                      Exec("scripts/shared/setup-RDFox"),
                      Exec("scripts/data-conversion/master-pipeline"),
                      Exec("scripts/reasoning/master-pipeline")>>


-----------------------------------------------------------------------------
(* Claims about the order of a list of source paths, checked under Spec *)

\* whether the lists of two calls of the list form hold the same source
\* paths, in any order
SameSources(i, j) ==
    /\ Len(calls[i].files.items) = Len(calls[j].files.items)
    /\ SourcesOf(i) = SourcesOf(j)

\* the staging identifier of a returned call: the folder its files are
\* staged in
StagingIdentifier(i) ==
    {SubSeq(k.s, 3, Min({p \in DOMAIN k.s : k.s[p] = ")"})) : k \in Keys(InputFilesOf(i))}

\* C23: for the list form of from_files, the staging identifier and the set
\* of staged target paths do not depend on the order in which the same
\* source paths are listed: two calls whose lists are permutations of each
\* other return equal input_files.
C23_OrderIndependence ==
    \A i, j \in ListCalls :
        (ReturnedCall(i) /\ ReturnedCall(j) /\ SameSources(i, j)) =>
            /\ StagingIdentifier(i) = StagingIdentifier(j)
            /\ Keys(InputFilesOf(i)) = Keys(InputFilesOf(j))
            /\ DictEq(InputFilesOf(i), InputFilesOf(j))


====
